---- MODULE Spec2Model ----
(***************************************************************************)
(* Model of the trip-record cleaning script src/clean_data.py.             *)
(*                                                                         *)
(* The script is a straight-line program over one data frame `df`.  Each   *)
(* numbered step of the script is one action; `pc` is the position in the  *)
(* script.  A CSV file is a sequence of rows plus a set of column names.   *)
(*                                                                         *)
(* Encoding of values                                                      *)
(*   optional value   <<>> is the missing value (NaN / NaT / no column),   *)
(*                    <<v>> is the value v                                  *)
(*   timestamp text   <<>> is a cell the parser cannot read, <<s, f>> is   *)
(*                    a readable timestamp: s whole seconds and f          *)
(*                    sub-second ticks (f = 0: no fractional part)         *)
(*   parsed timestamp <<t>> with t in ticks, TicksPerSec ticks per second  *)
(*   ratio            <<num, den>>                                         *)
(***************************************************************************)
EXTENDS Integers, Sequences, FiniteSets

VARIABLES
    input,          \* rows of the CSV file the script reads
    inputCols,      \* its header
    run,            \* 1: first run, 2: run on the first run's output
    pc,             \* position in the script
    df,             \* the data frame
    cols,           \* columns of the data frame
    initial_rows,   \* line 14
    before,         \* the step's `before`
    removed,        \* the step's `removed` (step 7: `after`)
    pct,            \* the percentage a step printed, a ratio
    output,         \* <<>>: no file written in this run, <<rows>>: the file
    outputCols,     \* header of the written file
    report,         \* <<>> or the summary and statistics printed
    out1            \* the file the first run wrote, kept for comparison

vars == <<input, inputCols, run, pc, df, cols, initial_rows, before, removed,
          pct, output, outputCols, report, out1>>

----------------------------------------------------------------------------
(* Bounds of the model *)

MaxRows == 2

TicksPerSec == 2

(* Thresholds of the script *)

MinDurationSec == 60

MaxDurationSec == 14400

MaxSpeedKmh == 50

----------------------------------------------------------------------------
(* Optional values *)

Missing == <<>>

IsNull(o) == o = <<>>

NotNull(o) == o # <<>>

----------------------------------------------------------------------------
(* Generic helpers on sequences *)

RECURSIVE KeepIdx(_, _, _)
\* the subsequence of s at the indices in keep, from index i on, order kept
KeepIdx(s, keep, i) ==
    IF i > Len(s) THEN <<>>
    ELSE IF i \in keep THEN <<s[i]>> \o KeepIdx(s, keep, i + 1)
    ELSE KeepIdx(s, keep, i + 1)

\* boolean-mask indexing df[mask], the mask given as the set of kept positions
Select(s, keep) == KeepIdx(s, keep, 1)

RECURSIVE SumSeq(_)
SumSeq(s) == IF s = <<>> THEN 0 ELSE s[1] + SumSeq(Tail(s))

\* values in ascending order
Ascending(s) ==
    LET n == Len(s)
        rank(i) == 1 + Cardinality({j \in 1..n :
                        s[j] < s[i] \/ (s[j] = s[i] /\ j < i)})
    IN [k \in 1..n |-> s[CHOOSE i \in 1..n : rank(i) = k]]

----------------------------------------------------------------------------
(* Conversions and column expressions of the script *)

\* pd.to_datetime(cell, format='mixed', errors='coerce'): a cell that cannot
\* be read becomes NaT, a readable one keeps its sub-second part
to_datetime(cell) ==
    IF cell = <<>> THEN Missing
    ELSE <<cell[1] * TicksPerSec + cell[2]>>

\* ts.strftime('%Y-%m-%dT%H:%M:%S'): the text carries whole seconds only
strftime(ts) ==
    IF IsNull(ts) THEN Missing
    ELSE <<ts[1] \div TicksPerSec, 0>>

\* float.astype(int): truncation toward zero
TruncToInt(num, den) ==
    IF num >= 0 THEN num \div den ELSE -((-num) \div den)

\* (Return - Departure).dt.total_seconds().astype(int)
DurationFromTimestamps(r) ==
    TruncToInt(r.Return[1] - r.Departure[1], TicksPerSec)

----------------------------------------------------------------------------
(* float64 arithmetic, as numpy does it for the Speed_kmh column.          *)
(* A float is [cls, sign, hi, lo, e]: cls is "num", "zero", "inf" or       *)
(* "nan"; a "num" has the value sign * (hi * 2^26 + lo) * 2^e with the     *)
(* 53-bit significand hi * 2^26 + lo in [2^52, 2^53).  Every operation     *)
(* rounds to nearest, ties to even.  Exponents stay far from the range     *)
(* limits of float64 for the integers of a data frame.                     *)

RECURSIVE Pow2(_)
Pow2(k) == IF k = 0 THEN 1 ELSE 2 * Pow2(k - 1)

\* 2^26: the significand is kept as two halves, hi * Limb + lo
Limb == 67108864

RECURSIVE BitLength(_)
\* the number of binary digits of n > 0
BitLength(n) == IF n = 0 THEN 0 ELSE 1 + BitLength(n \div 2)

FZero == [cls |-> "zero", sign |-> 1, hi |-> 0, lo |-> 0, e |-> 0]

FInf(sg) == [cls |-> "inf", sign |-> sg, hi |-> 0, lo |-> 0, e |-> 0]

FNaN == [cls |-> "nan", sign |-> 1, hi |-> 0, lo |-> 0, e |-> 0]

\* int64 -> float64, exact for the integers of the model (below 2^31)
FromInt(n) ==
    IF n = 0 THEN FZero
    ELSE LET a == IF n < 0 THEN -n ELSE n
             shift == 53 - BitLength(a)
         IN [cls |-> "num",
             sign |-> IF n < 0 THEN -1 ELSE 1,
             hi |-> IF shift >= 26 THEN a * Pow2(shift - 26)
                    ELSE a \div Pow2(26 - shift),
             lo |-> IF shift >= 26 THEN 0
                    ELSE (a % Pow2(26 - shift)) * Pow2(shift),
             e |-> -shift]

\* The state of a long division is <<rh, rl, qh, ql, bh, bl>>: the remainder
\* rh*2^26 + rl, the quotient so far qh*2^26 + ql, the divisor bh*2^26 + bl.

\* one round: the next quotient bit is taken and the remainder is doubled
DivStep(st) ==
    LET bit == IF st[1] > st[5] \/ (st[1] = st[5] /\ st[2] >= st[6])
               THEN 1 ELSE 0
        sl == IF bit = 0 THEN st[2]
              ELSE IF st[2] < st[6] THEN st[2] - st[6] + Limb
              ELSE st[2] - st[6]
        sh == IF bit = 0 THEN st[1]
              ELSE IF st[2] < st[6] THEN st[1] - st[5] - 1
              ELSE st[1] - st[5]
        ql == 2 * st[4] + bit
    IN <<IF 2 * sl >= Limb THEN 2 * sh + 1 ELSE 2 * sh,
         IF 2 * sl >= Limb THEN 2 * sl - Limb ELSE 2 * sl,
         IF ql >= Limb THEN 2 * st[3] + 1 ELSE 2 * st[3],
         IF ql >= Limb THEN ql - Limb ELSE ql,
         st[5], st[6]>>

RECURSIVE DivLoop(_)
\* rounds until the quotient has its 53 bits; the first bit is 1, so that is
\* when the quotient reaches 2^52.  (Each round's state is bound as a value
\* before the next round uses it.)
DivLoop(st) ==
    IF st[3] >= Limb THEN st
    ELSE CHOOSE r \in {DivLoop(n) : n \in {DivStep(st)}} : TRUE

\* the quotient rounded to nearest, ties to even: the remainder left (already
\* doubled) rounds up when it exceeds the divisor, to even when it equals it
Rounded(st, sg, e0) ==
    LET up == \/ st[1] > st[5]
              \/ st[1] = st[5] /\ st[2] > st[6]
              \/ st[1] = st[5] /\ st[2] = st[6] /\ st[4] % 2 = 1
    IN IF ~up
       THEN [cls |-> "num", sign |-> sg, hi |-> st[3], lo |-> st[4], e |-> e0]
       ELSE IF st[4] + 1 < Limb
       THEN [cls |-> "num", sign |-> sg, hi |-> st[3], lo |-> st[4] + 1,
             e |-> e0]
       ELSE IF st[3] + 1 < 2 * Limb
       THEN [cls |-> "num", sign |-> sg, hi |-> st[3] + 1, lo |-> 0, e |-> e0]
       ELSE [cls |-> "num", sign |-> sg, hi |-> Limb, lo |-> 0, e |-> e0 + 1]

\* the quotient of two significands: the dividend is doubled first when it is
\* below the divisor, so that the first quotient bit is 1
Quotient(x, y, sg, e0, dbl) ==
    LET c == IF dbl /\ 2 * x.lo >= Limb THEN 1 ELSE 0
        start == IF dbl
                 THEN <<2 * x.hi + c, 2 * x.lo - c * Limb, 0, 0, y.hi, y.lo>>
                 ELSE <<x.hi, x.lo, 0, 0, y.hi, y.lo>>
    IN CHOOSE f \in {Rounded(st, sg, e0) : st \in {DivLoop(start)}} : TRUE

\* x / y on float64
FDiv(x, y) ==
    IF x.cls = "nan" \/ y.cls = "nan" THEN FNaN
    ELSE IF x.cls = "inf"
         THEN IF y.cls = "inf" THEN FNaN ELSE FInf(x.sign * y.sign)
    ELSE IF y.cls = "inf" THEN FZero
    ELSE IF y.cls = "zero"
         THEN IF x.cls = "zero" THEN FNaN ELSE FInf(x.sign * y.sign)
    ELSE IF x.cls = "zero" THEN FZero
    ELSE IF x.hi > y.hi \/ (x.hi = y.hi /\ x.lo >= y.lo)
         THEN Quotient(x, y, x.sign * y.sign, x.e - y.e - 52, FALSE)
    ELSE Quotient(x, y, x.sign * y.sign, x.e - y.e - 53, TRUE)

\* a / b on two integers, both converted to float64 first
IntDiv(a, b) ==
    CHOOSE f \in {FDiv(x, y) : x \in {FromInt(a)}, y \in {FromInt(b)}} : TRUE

\* x <= y on float64; a comparison with nan is False
FLessEq(x, y) ==
    LET side(f) == IF f.cls = "zero" THEN 0 ELSE f.sign
        magLE(a, b) ==      \* |a| <= |b|, both "num" or "inf"
            IF a.cls = "inf" THEN b.cls = "inf"
            ELSE IF b.cls = "inf" THEN TRUE
            ELSE \/ a.e < b.e
                 \/ a.e = b.e /\ a.hi < b.hi
                 \/ a.e = b.e /\ a.hi = b.hi /\ a.lo <= b.lo
    IN IF x.cls = "nan" \/ y.cls = "nan" THEN FALSE
       ELSE IF side(x) # side(y) THEN side(x) < side(y)
       ELSE IF side(x) = 0 THEN TRUE
       ELSE IF side(x) = 1 THEN magLE(x, y)
       ELSE magLE(y, x)

\* (distance / 1000) / (duration / 3600): two operands rounded, then the
\* quotient rounded
SpeedFrom(distance, duration) ==
    CHOOSE f \in {FDiv(x, y) : x \in {IntDiv(distance, 1000)},
                               y \in {IntDiv(duration, 3600)}} : TRUE

SpeedUsingRecordedDuration(r) == SpeedFrom(r.Distance[1], r.Duration)

\* (df['Covered distance (m)'] / 1000) / (df['new_duration'] / 3600)
Speed_kmh(r) == SpeedFrom(r.Distance[1], r.new_duration[1])

\* speed <= 50 on float64
SpeedWithinBound(sp) == FLessEq(sp, FromInt(MaxSpeedKmh))

----------------------------------------------------------------------------

\* the row predicates of the filtering steps
HasTimestamps(r) == NotNull(r.Departure) /\ NotNull(r.Return)

ReturnNotBeforeDeparture(r) == r.Return[1] >= r.Departure[1]

KeepFromZeroDuration(r) == r.new_duration[1] >= 0

KeepMinDuration(r) == r.new_duration[1] >= MinDurationSec

KeepMaxDuration(r) == r.new_duration[1] <= MaxDurationSec

HasDistance(r) == NotNull(r.Distance)

KeepNonNegativeDistance(r) == r.Distance[1] >= 0

KeepPositiveDistance(r) == r.Distance[1] > 0

KeepSpeed(r) == SpeedWithinBound(r.Speed_kmh)

GuardAboveMinimum(r) == r.new_duration[1] > MinDurationSec

ZeroDurationGuard(r) == r.new_duration[1] > 0

\* df.drop_duplicates(): a row equal in every column to an earlier row goes,
\* the first occurrence stays; missing values compare equal to each other
drop_duplicates(d) ==
    KeepIdx(d, {i \in 1..Len(d) : \A j \in 1..(i - 1) : d[j] # d[i]}, 1)

\* the repair of step 7: a missing distance of a same-station trip becomes 0
FillSameStation(r) ==
    IF r.DepStation = r.RetStation /\ IsNull(r.Distance)
    THEN [r EXCEPT !.Distance = <<0>>]
    ELSE r

\* df.sort_values('Departure', ascending=...) with the default
\* kind='quicksort', which is not stable: the result is some arrangement of
\* the rows that is ordered by Departure, and rows with equal Departure come
\* in an order the build chooses.  The set of the possible results.
SortByDeparture(d, descending) ==
    LET n == Len(d)
        inOrder(a, b) == IF descending THEN a >= b ELSE a <= b
        perms == {p \in [1..n -> 1..n] : \A i, j \in 1..n : i # j => p[i] # p[j]}
    IN {[k \in 1..n |-> d[p[k]]] :
          p \in {q \in perms : \A k \in 1..(n - 1) :
                    inOrder(d[q[k]].Departure[1], d[q[k + 1]].Departure[1])}}

sort_ascending(d) == SortByDeparture(d, FALSE)

sort_values(d) == SortByDeparture(d, TRUE)

\* the ratio removed/before*100; Python raises ZeroDivisionError on before = 0
Percent(part, whole) == <<part * 100, whole>>

----------------------------------------------------------------------------
(* The statistics of the cleaned data, lines 146-160 *)

Mean(s) == IF s = <<>> THEN Missing ELSE <<SumSeq(s), Len(s)>>

Median(s) ==
    LET n == Len(s)
        a == Ascending(s)
    IN IF n = 0 THEN Missing
       ELSE IF n % 2 = 1 THEN <<a[(n + 1) \div 2], 1>>
       ELSE <<a[n \div 2] + a[n \div 2 + 1], 2>>

Min(s) ==
    IF s = <<>> THEN Missing
    ELSE <<CHOOSE v \in {s[i] : i \in 1..Len(s)} :
             \A i \in 1..Len(s) : v <= s[i]>>

Max(s) ==
    IF s = <<>> THEN Missing
    ELSE <<CHOOSE v \in {s[i] : i \in 1..Len(s)} :
             \A i \in 1..Len(s) : v >= s[i]>>

nunique(s) == Cardinality({s[i] : i \in 1..Len(s)})

Durations(d) == [i \in 1..Len(d) |-> d[i].Duration]

Distances(d) == [i \in 1..Len(d) |-> d[i].Distance[1]]

DepStations(d) == [i \in 1..Len(d) |-> d[i].DepStation]

RetStations(d) == [i \in 1..Len(d) |-> d[i].RetStation]

Statistics(d) ==
    [ final_rows   |-> Len(d),
      removed_rows |-> initial_rows - Len(d),
      retained     |-> Percent(Len(d), initial_rows),
      dur_mean     |-> Mean(Durations(d)),
      dur_median   |-> Median(Durations(d)),
      dur_min      |-> Min(Durations(d)),
      dur_max      |-> Max(Durations(d)),
      dist_mean    |-> Mean(Distances(d)),
      dist_median  |-> Median(Distances(d)),
      dist_min     |-> Min(Distances(d)),
      dist_max     |-> Max(Distances(d)),
      dep_stations |-> nunique(DepStations(d)),
      ret_stations |-> nunique(RetStations(d)) ]

----------------------------------------------------------------------------
(* The input files of the model *)

OriginalCols ==
    {"Departure", "Return", "Departure station id", "Return station id",
     "Duration (sec.)", "Covered distance (m)"}

\* the last sub-second tick of a second
Frac == TicksPerSec - 1

Trip(dep, ret, ds, rs, dur, dist) ==
    [Departure |-> dep, Return |-> ret, DepStation |-> ds, RetStation |-> rs,
     Duration |-> dur, Distance |-> dist, new_duration |-> Missing]

\* trips around the duration thresholds, with and without sub-second parts
DurationTrips ==
    {Trip(dep, ret, 1, 2, 100, <<500>>) :
        dep \in {<<0, 0>>, <<0, Frac>>},
        ret \in {<<0, 0>>, <<MinDurationSec, 0>>, <<MinDurationSec, Frac>>,
                 <<MinDurationSec + 1, 0>>, <<MaxDurationSec, Frac>>,
                 <<MaxDurationSec + 1, 0>>}}

\* trips of 72 s (recorded as 100 s): 1000 m is exactly 50 km/h; missing,
\* zero and negative distances, between the same and between different
\* stations; and a trip of 513 s and 7125 m, exactly 50 km/h as well, whose
\* speed float64 computes as 50.00000000000001
DistanceTrips ==
    {Trip(<<0, 0>>, <<72, 0>>, 1, rs, 100, dist) :
        rs \in {1, 2}, dist \in {Missing, <<0>>, <<1000>>, <<1001>>}}
    \cup {Trip(<<0, 0>>, <<72, 0>>, 1, 2, 100, <<-5>>),
          Trip(<<0, 0>>, <<513, 0>>, 1, 2, 600, <<7125>>)}

\* cells the parser cannot read, and a later departure
OtherTrips ==
    {Trip(<<>>, <<72, 0>>, 1, 2, 72, <<500>>),
     Trip(<<0, 0>>, <<>>, 1, 2, 72, <<500>>),
     Trip(<<100, 0>>, <<300, 0>>, 2, 1, 200, <<800>>)}

Trips == DurationTrips \cup DistanceTrips \cup OtherTrips

InputFiles == UNION {[1..n -> Trips] : n \in 0..MaxRows}

----------------------------------------------------------------------------
(* The script *)

\* the order of the statements of the script
ReportBeforeSave ==
    <<"load", "step1", "step2", "step3", "step4", "step5", "step6", "step7",
      "step7_5", "speed", "step8", "dropspeed", "step9", "step10", "format",
      "report", "save", "done">>

ScriptOrder ==
    <<"load", "step1", "step2", "step3", "step4", "step5", "step6", "step7",
      "step7_5", "speed", "step8", "dropspeed", "step9", "step10", "format",
      "save", "report", "done">>

NextStage(p) ==
    ScriptOrder[1 + CHOOSE i \in 1..Len(ScriptOrder) : ScriptOrder[i] = p]

Init ==
    /\ input \in InputFiles
    /\ inputCols = OriginalCols
    /\ run = 1
    /\ pc = "load"
    /\ df = <<>>
    /\ cols = {}
    /\ initial_rows = 0
    /\ before = 0
    /\ removed = 0
    /\ pct = Missing
    /\ output = Missing
    /\ outputCols = {}
    /\ report = Missing
    /\ out1 = Missing

\* a row as read from the file, with both timestamp columns converted
ParseRow(r) ==
    [Departure |-> to_datetime(r.Departure), Return |-> to_datetime(r.Return),
     DepStation |-> r.DepStation, RetStation |-> r.RetStation,
     Duration |-> r.Duration, Distance |-> r.Distance,
     new_duration |-> r.new_duration, Speed_kmh |-> Missing]

\* a row as written to the file
FileRow(r) ==
    [Departure |-> r.Departure, Return |-> r.Return,
     DepStation |-> r.DepStation, RetStation |-> r.RetStation,
     Duration |-> r.Duration, Distance |-> r.Distance,
     new_duration |-> r.new_duration]

\* a filtering step: before = len(df); df = df[mask]; removed = before - len(df)
Filter(here, keep) ==
    /\ pc = here
    /\ df' = Select(df, keep)
    /\ before' = Len(df)
    /\ removed' = Len(df) - Len(df')

\* a filtering step that prints removed/before*100: the division raises
\* ZeroDivisionError when the frame entering the step is empty
FilterWithPercent(here, keep) ==
    /\ Filter(here, keep)
    /\ IF Len(df) = 0
       THEN pc' = "raised" /\ pct' = pct
       ELSE pc' = NextStage(here) /\ pct' = Percent(removed', before')

\* lines 13-19
Load ==
    /\ pc = "load"
    /\ df' = [i \in 1..Len(input) |-> ParseRow(input[i])]
    /\ cols' = inputCols
    /\ initial_rows' = Len(input)
    /\ pc' = NextStage("load")
    /\ UNCHANGED <<input, inputCols, run, before, removed, pct, output,
                   outputCols, report, out1>>

\* lines 25-31
Step1 ==
    /\ Filter("step1", {i \in 1..Len(df) : HasTimestamps(df[i])})
    /\ pc' = NextStage("step1")
    /\ UNCHANGED <<input, inputCols, run, cols, initial_rows, pct, output,
                   outputCols, report, out1>>

\* lines 33-39
Step2 ==
    /\ pc = "step2"
    /\ df' = drop_duplicates(df)
    /\ before' = Len(df)
    /\ removed' = Len(df) - Len(df')
    /\ pc' = NextStage("step2")
    /\ UNCHANGED <<input, inputCols, run, cols, initial_rows, pct, output,
                   outputCols, report, out1>>

\* lines 41-47
Step3 ==
    /\ Filter("step3", {i \in 1..Len(df) : ReturnNotBeforeDeparture(df[i])})
    /\ pc' = NextStage("step3")
    /\ UNCHANGED <<input, inputCols, run, cols, initial_rows, pct, output,
                   outputCols, report, out1>>

\* lines 49-53
Step4 ==
    /\ pc = "step4"
    /\ df' = [i \in 1..Len(df) |->
                [df[i] EXCEPT !.new_duration = <<DurationFromTimestamps(df[i])>>]]
    /\ cols' = cols \cup {"new_duration"}
    /\ pc' = NextStage("step4")
    /\ UNCHANGED <<input, inputCols, run, initial_rows, before, removed, pct,
                   output, outputCols, report, out1>>

\* lines 55-62
Step5 ==
    /\ FilterWithPercent("step5", {i \in 1..Len(df) : KeepMinDuration(df[i])})
    /\ UNCHANGED <<input, inputCols, run, cols, initial_rows, output,
                   outputCols, report, out1>>

\* lines 64-71
Step6 ==
    /\ FilterWithPercent("step6", {i \in 1..Len(df) : KeepMaxDuration(df[i])})
    /\ UNCHANGED <<input, inputCols, run, cols, initial_rows, output,
                   outputCols, report, out1>>

\* lines 73-83: `before` counts the missing distances, `after` (kept in
\* removed) is before minus the missing distances left, of which there are none
Step7 ==
    /\ pc = "step7"
    /\ LET filled == [i \in 1..Len(df) |-> FillSameStation(df[i])]
       IN /\ df' = Select(filled, {i \in 1..Len(filled) : HasDistance(filled[i])})
          /\ before' = Cardinality({i \in 1..Len(df) : IsNull(df[i].Distance)})
          /\ removed' = before' -
                Cardinality({i \in 1..Len(df') : IsNull(df'[i].Distance)})
    /\ pc' = NextStage("step7")
    /\ UNCHANGED <<input, inputCols, run, cols, initial_rows, pct, output,
                   outputCols, report, out1>>

\* lines 85-92
Step7_5 ==
    /\ FilterWithPercent("step7_5", {i \in 1..Len(df) : KeepPositiveDistance(df[i])})
    /\ UNCHANGED <<input, inputCols, run, cols, initial_rows, output,
                   outputCols, report, out1>>

\* lines 94-96
ComputeSpeed ==
    /\ pc = "speed"
    /\ df' = [i \in 1..Len(df) |->
                [df[i] EXCEPT !.Speed_kmh = Speed_kmh(df[i])]]
    /\ cols' = cols \cup {"Speed_kmh"}
    /\ pc' = NextStage("speed")
    /\ UNCHANGED <<input, inputCols, run, initial_rows, before, removed, pct,
                   output, outputCols, report, out1>>

\* lines 98-104
Step8 ==
    /\ Filter("step8", {i \in 1..Len(df) : KeepSpeed(df[i])})
    /\ pc' = NextStage("step8")
    /\ UNCHANGED <<input, inputCols, run, cols, initial_rows, pct, output,
                   outputCols, report, out1>>

\* lines 106-107
DropSpeed ==
    /\ pc = "dropspeed"
    /\ df' = [i \in 1..Len(df) |-> [df[i] EXCEPT !.Speed_kmh = Missing]]
    /\ cols' = cols \ {"Speed_kmh"}
    /\ pc' = NextStage("dropspeed")
    /\ UNCHANGED <<input, inputCols, run, initial_rows, before, removed, pct,
                   output, outputCols, report, out1>>

\* lines 109-115
Step9 ==
    /\ Filter("step9", {i \in 1..Len(df) : ZeroDurationGuard(df[i])})
    /\ pc' = NextStage("step9")
    /\ UNCHANGED <<input, inputCols, run, cols, initial_rows, pct, output,
                   outputCols, report, out1>>

\* lines 117-120
Step10 ==
    /\ pc = "step10"
    /\ df' \in sort_values(df)
    /\ pc' = NextStage("step10")
    /\ UNCHANGED <<input, inputCols, run, cols, initial_rows, before, removed,
                   pct, output, outputCols, report, out1>>

\* lines 122-124
Format ==
    /\ pc = "format"
    /\ df' = [i \in 1..Len(df) |->
                [df[i] EXCEPT !.Departure = strftime(df[i].Departure),
                              !.Return = strftime(df[i].Return)]]
    /\ pc' = NextStage("format")
    /\ UNCHANGED <<input, inputCols, run, cols, initial_rows, before, removed,
                   pct, output, outputCols, report, out1>>

\* lines 126-132
Save ==
    /\ pc = "save"
    /\ output' = <<[i \in 1..Len(df) |-> FileRow(df[i])]>>
    /\ outputCols' = cols
    /\ pc' = NextStage("save")
    /\ UNCHANGED <<input, inputCols, run, df, cols, initial_rows, before,
                   removed, pct, report, out1>>

\* lines 134-162: len(df)/initial_rows raises on an empty input file
Report ==
    /\ pc = "report"
    /\ IF initial_rows = 0
       THEN pc' = "raised" /\ report' = report
       ELSE pc' = NextStage("report") /\ report' = <<Statistics(df)>>
    /\ UNCHANGED <<input, inputCols, run, df, cols, initial_rows, before,
                   removed, pct, output, outputCols, out1>>

\* a step of the environment, not of the script: the file the first run wrote
\* is put in the place of the input file and the script is started again
Rerun ==
    /\ pc = "done"
    /\ run = 1
    /\ NotNull(output)
    /\ input' = output[1]
    /\ inputCols' = outputCols
    /\ run' = 2
    /\ out1' = output
    /\ pc' = "load"
    /\ df' = <<>>
    /\ cols' = {}
    /\ initial_rows' = 0
    /\ before' = 0
    /\ removed' = 0
    /\ pct' = Missing
    /\ output' = Missing
    /\ outputCols' = {}
    /\ report' = Missing

Next ==
    \/ Load
    \/ Step1
    \/ Step2
    \/ Step3
    \/ Step4
    \/ Step5
    \/ Step6
    \/ Step7
    \/ Step7_5
    \/ ComputeSpeed
    \/ Step8
    \/ DropSpeed
    \/ Step9
    \/ Step10
    \/ Format
    \/ Save
    \/ Report
    \/ Rerun

Spec == Init /\ [][Next]_vars

----------------------------------------------------------------------------
(* Properties *)

Written == NotNull(output)

OutRows == output[1]

Terminated == pc \in {"done", "raised"}

\* the columns of the input, without the derived duration
OriginalPart(r) ==
    [Departure |-> r.Departure, Return |-> r.Return,
     DepStation |-> r.DepStation, RetStation |-> r.RetStation,
     Duration |-> r.Duration, Distance |-> r.Distance]

\* the row of the output that an input row becomes if it survives
Cleaned(r) ==
    [OriginalPart(r) EXCEPT !.Departure = strftime(to_datetime(r.Departure)),
                            !.Return = strftime(to_datetime(r.Return))]

DurationInRange(r) ==
    /\ NotNull(r.new_duration)
    /\ MinDurationSec <= r.new_duration[1]
    /\ r.new_duration[1] <= MaxDurationSec

\* C1: every row of the written output has 60 <= new_duration <= 14400, and
\* from the maximum-duration filter up to the re-serialization new_duration is
\* still the truncated second difference attached at step 4.
C1_DurationBounded ==
    /\ pc \in {"step7", "step7_5", "speed", "step8", "dropspeed", "step9",
               "step10", "format"}
         => \A i \in 1..Len(df) :
                /\ DurationInRange(df[i])
                /\ df[i].new_duration = <<DurationFromTimestamps(df[i])>>
    /\ Written
         => /\ "new_duration" \in outputCols
            /\ \A i \in 1..Len(OutRows) : DurationInRange(OutRows[i])

C1_Witness ==
    /\ run = 1
    /\ Written
    /\ Len(OutRows) < Len(input)
    /\ \E i \in 1..Len(OutRows) :
          OutRows[i].new_duration[1] \in {MinDurationSec, MaxDurationSec}

\* C2: every row of the written output has a distance that is present and
\* strictly positive, and stems from an input row whose distance was present.
C2_DistancePositive ==
    Written =>
        \A i \in 1..Len(OutRows) :
            /\ NotNull(OutRows[i].Distance)
            /\ OutRows[i].Distance[1] > 0
            /\ run = 1 =>
                 \E k \in 1..Len(input) :
                    /\ NotNull(input[k].Distance)
                    /\ Cleaned(input[k]) = OriginalPart(OutRows[i])

C2_Witness ==
    /\ run = 1
    /\ Written
    /\ Len(OutRows) > 0
    /\ \E k \in 1..Len(input) :
          /\ IsNull(input[k].Distance)
          /\ input[k].DepStation = input[k].RetStation
          /\ HasTimestamps(ParseRow(input[k]))

\* C3: every row of the written output has a speed of at most 50 km/h, both
\* exactly (distance*3600 <= 50*1000*new_duration) and as float64 computes
\* it; the speed is computed only on rows with new_duration >= 60 (so the
\* division is never by zero and the speed is a finite number), and the
\* output has no Speed_kmh column.
C3_SpeedBounded ==
    /\ Written
         => /\ "Speed_kmh" \notin outputCols
            /\ \A i \in 1..Len(OutRows) :
                  /\ OutRows[i].Distance[1] * 3600
                        <= MaxSpeedKmh * 1000 * OutRows[i].new_duration[1]
                  /\ pc = "done" =>
                        FLessEq(SpeedFrom(OutRows[i].Distance[1],
                                          OutRows[i].new_duration[1]),
                                FromInt(MaxSpeedKmh))
    /\ pc = "speed"
         => \A i \in 1..Len(df) : df[i].new_duration[1] >= MinDurationSec
    /\ pc \in {"step8", "dropspeed"}
         => /\ "Speed_kmh" \in cols
            /\ \A i \in 1..Len(df) : df[i].Speed_kmh.cls = "num"

C3_Witness ==
    /\ run = 1
    /\ Written
    /\ \E i \in 1..Len(OutRows) :
          OutRows[i].Distance[1] * 3600
             = MaxSpeedKmh * 1000 * OutRows[i].new_duration[1]
    /\ \E k \in 1..Len(input) : input[k].Distance = <<1001>>

\* C4: no two rows of the written output agree in all original columns.
C4_NoDuplicateOutputRows ==
    Written =>
        \A i, j \in 1..Len(OutRows) :
            i < j => OriginalPart(OutRows[i]) # OriginalPart(OutRows[j])

\* C5: the rows are in non-increasing order of Departure, as parsed timestamps
\* after the sort and as serialized text in the written output.
C5_SortedDescending ==
    /\ pc = "format"
         => \A i \in 1..(Len(df) - 1) :
                df[i].Departure[1] >= df[i + 1].Departure[1]
    /\ Written
         => \A i \in 1..(Len(OutRows) - 1) :
                OutRows[i].Departure[1] >= OutRows[i + 1].Departure[1]

C5_Witness ==
    /\ run = 1
    /\ Written
    /\ Len(input) = 2
    /\ Len(OutRows) = 2
    /\ HasTimestamps(ParseRow(input[1]))
    /\ HasTimestamps(ParseRow(input[2]))
    /\ input[1].Departure[1] < input[2].Departure[1]
    /\ OutRows[1].Departure[1] > OutRows[2].Departure[1]

\* C6: in every row of the written output, new_duration is the second
\* difference of the row's Return and Departure as read back from the output.
C6_DurationMatchesOutputTimestamps ==
    Written =>
        \A i \in 1..Len(OutRows) :
            OutRows[i].new_duration
               = <<DurationFromTimestamps(ParseRow(OutRows[i]))>>

\* C7: the run of the script on its own output ends normally and writes the
\* file it read: same rows, same new_duration values, same order.
C7_Idempotent ==
    (run = 2 /\ Terminated) =>
        /\ pc = "done"
        /\ output = out1
        /\ outputCols = inputCols

\* C8: no step of the script raises.
C8_NeverRaises == pc # "raised"

\* C9 as stated: the file is written only after the summary is computed.
C9_WriteAfterReport == Written => NotNull(report)

\* C9 as amended: the file is written before the summary is computed; the
\* reporter runs only once the file of this run exists.
C9_ReportAfterWrite ==
    /\ pc = "save" => IsNull(report) /\ ~Written
    /\ (pc \in {"report", "done"} \/ NotNull(report)) => Written

C9_Witness ==
    /\ run = 1
    /\ pc = "done"
    /\ NotNull(report)
    /\ Written
    /\ Len(OutRows) > 0

\* C10: the zero-duration guard removes no row.
C10_GuardRemovesNothing == [][pc = "step9" => df' = df]_vars

C10_Witness ==
    /\ pc = "step10"
    /\ removed = 0
    /\ \E i \in 1..Len(df) : df[i].new_duration[1] = MinDurationSec

====
